---- MODULE Spec2Model ----
(***************************************************************************)
(* Run orchestration and watch/collect pipeline of db-batch.               *)
(*                                                                         *)
(*   orchestrator : run_batch            (dbbatch/run_batch.py)            *)
(*   watchers     : Watcher, EplusWatcher (db_batch/watchers.py)           *)
(*   collector    : Collector            (db_batch/collector.py)           *)
(*   copying      : copy_files           (db_batch/misc_os.py)             *)
(*                                                                         *)
(* The external program (DesignBuilder / EnergyPlus / job server) is the   *)
(* environment: it writes files at its own pace and is never subject to    *)
(* fairness.  Work items are identified by their 1-based position, which   *)
(* stands for the model name.  A path is a pair <<directory, file name>>.  *)
(***************************************************************************)
EXTENDS Naturals, Integers, Sequences, FiniteSets, TLC

\* ------------------------------------------------------------------ bounds
NumModels == 2      \* number of discovered .dsb models
MaxLines == 1       \* lines the external tool appends to one status file
MaxSbemOut == 2     \* how many of the watched sbem files the tool may produce
MaxLate == 1        \* steps the asynchronous simulation takes after its call returned
MaxTailLines == 3   \* lines of one status file where the tailing itself is looked at
MaxInstances == 3   \* DesignBuilder.exe processes that may run before the batch

\* -------------------------------------------------------- program constants
NoEndIndex == 9999999

Models == 1..NumModels

SBEM_VERSIONS == <<"41e", "54a", "54b", "55h", "56a">>

WATCH_SBEM ==
    <<"model.inp", "model_epc.inp", "model_epc[epc].pdf", "model_epc[rec].pdf",
      "model_epc[srec].pdf", "model_ber.inp", "model_ber[adv].pdf",
      "model_ber[ber].pdf", "model_ber[sadv].pdf">>

WATCH_EPLUS == <<"in.idf", "eplusout.err", "eplusout.eso", "eplustbl.htm">>

Range(s) == {s[k] : k \in 1..Len(s)}

\* get_loc: results subdirectories of the DesignBuilder data directory
get_loc(analysis) ==
    IF analysis = "eplus" THEN <<"energyplus">> ELSE SBEM_VERSIONS

\* run_batch, default watch files for the analysis type
default_watch_files(analysis) ==
    IF analysis = "sbem" THEN WATCH_SBEM ELSE WATCH_EPLUS

\* watch_paths = [join(db_data_dir, loc, file) for file in watch_files for loc in locs]
watch_paths(analysis) ==
    LET fs == default_watch_files(analysis)
        ls == get_loc(analysis)
    IN  [k \in 1..(Len(fs) * Len(ls)) |->
            <<ls[((k - 1) % Len(ls)) + 1], fs[((k - 1) \div Len(ls)) + 1]>>]

\* os.path.basename / os.path.join on the pair representation
basename(p) == p[2]
join(dir, name) == <<dir, name>>

\* The job-server subdirectory the external tool creates for run r
JobNames == <<"job1", "job2", "job3", "job4">>
JobDir(r) == JobNames[r]
JobDirs == {JobDir(r) : r \in Models}
StdDir == "energyplus"

\* The sbem files the external tool is able to produce within the bound
SbemOutPaths == {watch_paths("sbem")[k] : k \in 1..MaxSbemOut}

EplusPaths == {join(d, n) : d \in {StdDir} \cup JobDirs, n \in Range(WATCH_EPLUS)}
DiskPaths == EplusPaths \cup SbemOutPaths

LineKinds == {"other", "success", "fatal"}

VARIABLES
    analysis_type,  \* "eplus" | "sbem"
    start_index,    \* 1-based first index to run
    end_index,      \* 1-based last index to run, 0 when not given (None)
    i,              \* loop index of run_batch
    opc,            \* orchestrator position: "loop" | "start" | "call" | "done"
    report_dct,     \* the four tallies
    queue,          \* handoff queue
    wpc,            \* per watcher thread: position
    running,        \* per watcher: the _running flag
    wfiles,         \* per Simple watcher: accumulated set of readable paths
    original_jobs,  \* per Log-Scanning watcher: snapshot of the jobs directory
    new_dir,        \* per Log-Scanning watcher: resolved job directory or "none"
    pos,            \* per Log-Scanning watcher: lines of the status file read
    cpc,            \* collector thread: "off" (not started) | "run" | "dead"
    copied,         \* files the collector copied: <<model, source path>>
    disk,           \* path -> 0 (absent) or the run that produced the file
    errlines,       \* directory -> lines of its eplusout.err
    dirs,           \* job-server subdirectories that exist
    tst,            \* per run: stage of the external tool
    late,           \* per run: steps the tool took after its process call returned
    hist,           \* per model: bookkeeping about what already happened
    cf,             \* one call of copy_file: its arguments and its destination
    su,             \* run_batch before the item loop: position, inputs, error raised
    report_file,    \* the summary file: whether it is written, and its lines
    kp,             \* kill_process: position, process picked, kill() called, process table
    ow              \* two copy_file calls into one results tree, and that tree

vars == <<analysis_type, start_index, end_index, i, opc, report_dct, queue,
          wpc, running, wfiles, original_jobs, new_dir, pos, cpc, copied,
          disk, errlines, dirs, tst, late, hist, cf, su, report_file, kp, ow>>

\* what no thread of the batch changes: the run parameters, and the
\* copy_file call that is looked at on its own
runVars == <<analysis_type, start_index, end_index, cf, su, kp, ow>>
cfgVars == <<runVars, report_file>>
orchVars == <<i, opc>>
watchVars == <<wpc, running, wfiles, original_jobs, new_dir, pos>>
toolVars == <<disk, errlines, dirs, tst, late>>

\* ------------------------------------------------------------- file system
Exists(p) == p \in DOMAIN disk /\ disk[p] # 0

\* path of the status file a Log-Scanning watcher reads: files_dct["eplusout.err"],
\* rewritten under new_dir when the managed backend was resolved
WatchDir(w) == IF new_dir[w] = "none" THEN StdDir ELSE new_dir[w]
files_dct(w) == [n \in Range(default_watch_files("eplus")) |-> join(WatchDir(w), n)]
err_pth(w) == files_dct(w)["eplusout.err"]

\* a status file a watcher holds open cannot be deleted (PermissionError)
HeldOpen(p) == \E w \in Models : wpc[w] = "tail" /\ err_pth(w) = p

\* remove_files: delete every path; a missing file is ignored, a refused
\* deletion is only printed
remove_files(paths) ==
    [p \in DOMAIN disk |-> IF p \in paths /\ ~HeldOpen(p) THEN 0 ELSE disk[p]]

\* the status-file contents that go with a disk after a purge
PurgedLines(d2) ==
    [d \in DOMAIN errlines |->
        IF d2[join(d, "eplusout.err")] = 0 THEN <<>> ELSE errlines[d]]

\* ------------------------------------------------------------ bookkeeping
NoHist == [enq |-> 0, proc |-> 0, ev |-> {}, had |-> {}, lost |-> {}, saw |-> "none",
           stopped |-> FALSE, timedout |-> FALSE,
           first |-> "none", cancelled |-> FALSE, src |-> 0, alien |-> {}, ord |-> 0,
           seen |-> <<>>, exd |-> {}]

\* watcher w is inside check_simulation_method
Resolving(w) == wpc[w] \in {"csm", "scan"}

\* bookkeeping: the paths ps come into existence; every live watcher thread
\* has them among the paths that existed during its lifetime (once the
\* watcher has emitted its event, only the paths of the event are kept)
note_written(h, ps) ==
    [w \in Models |->
        IF wpc[w] \notin {"none", "dead"} THEN [h[w] EXCEPT !.exd = @ \cup ps] ELSE h[w]]

\* bookkeeping: for every watcher still resolving its backend, which of the
\* two events came first after its snapshot: the standard status file
\* ("std") or a job subdirectory d that is not in the snapshot ("job")
note_first(h, kind, d) ==
    [w \in Models |->
        IF /\ Resolving(w)
           /\ h[w].first = "none"
           /\ (kind = "std" \/ d \notin original_jobs[w])
        THEN [h[w] EXCEPT !.first = kind]
        ELSE h[w]]

Tally(key) == Range(report_dct[key])
Count(seq, x) == Cardinality({k \in 1..Len(seq) : seq[k] = x})

DONE == [tag |-> "DONE"]
Event(files, model_name) == [tag |-> "event", files |-> files, model_name |-> model_name]

\* queue.put: non-blocking push at the tail
put(q, item) == Append(q, item)

\* a get that leaves the head in the queue
peek_only(q) == q

\* queue.get: the head is removed from the queue
dequeue(q) == Tail(q)

\* Thread.is_alive of watcher w
Alive(w) == wpc[w] \notin {"none", "dead"}

\* threading.active_count(): main thread, collector thread, live watchers
active_count ==
    1 + (IF cpc = "dead" THEN 0 ELSE 1) + Cardinality({w \in Models : Alive(w)})

\* Watcher.stop
Watcher_stop(flags, w) == [flags EXCEPT ![w] = FALSE]

\* the skip test of the item loop
skip_item(idx, s, e) == idx < s \/ idx > (IF e # 0 THEN e ELSE NoEndIndex)

\* run_batch has passed every check and enters the item loop with the default
\* watch files of the analysis type
Entered(analysis) ==
    [pc |-> "loop", err |-> "none", root_ok |-> TRUE, model_paths |-> NumModels,
     db_pth_ok |-> TRUE, default |-> TRUE,
     watch_files |-> Range(default_watch_files(analysis))]

\* no pair of copies is looked at
NoCopies == [pc |-> "off"]

\* kill_process has returned and no DesignBuilder.exe is running
Instances == 1..MaxInstances
Killed == [pc |-> "done", db |-> 0, forced |-> FALSE,
           procs |-> [n \in Instances |-> "gone"]]

\* `if report_file: with open(report_file, "a") as f: f.write(line)`
write_line(rf, line) ==
    IF rf.requested THEN [rf EXCEPT !.lines = Append(@, line)] ELSE rf

\* The state when the item loop is entered: the collector thread is started,
\* the queue and the tallies are empty.  start_index is at most the number of
\* models (InvalidStartingIndex otherwise); an end_index of NumModels or more
\* behaves as no end_index.
BatchInit ==
    /\ analysis_type \in {"eplus", "sbem"}
    /\ start_index \in Models
    /\ end_index \in 0..(NumModels - 1)
    /\ i = 1
    /\ opc = "loop"
    /\ report_dct = [skipped |-> <<>>, expired |-> <<>>, failed |-> <<>>,
                     successful |-> <<>>]
    /\ queue = <<>>
    /\ wpc = [w \in Models |-> "none"]
    /\ running = [w \in Models |-> FALSE]
    /\ wfiles = [w \in Models |-> {}]
    /\ original_jobs = [w \in Models |-> {}]
    /\ new_dir = [w \in Models |-> "none"]
    /\ pos = [w \in Models |-> 0]
    /\ cpc = "run"
    /\ copied = {}
    /\ disk = [p \in DiskPaths |-> 0]
    /\ errlines = [d \in {StdDir} \cup JobDirs |-> <<>>]
    /\ dirs = {}
    /\ tst = [r \in Models |-> "off"]
    /\ late = [r \in Models |-> 0]
    /\ hist = [m \in Models |-> NoHist]
    /\ su = Entered(analysis_type)
    /\ kp = Killed

\* no copy_file call is looked at on its own
NoCall == [called |-> FALSE]

\* write_report = False: report_file = ""
NoReport == [requested |-> FALSE, lines |-> <<>>]

Init == BatchInit /\ cf = NoCall /\ report_file = NoReport /\ ow = NoCopies

\* ------------------------------------------------------------ orchestrator
\* run_batch, head of the item loop: purge the watch paths, then skip or go on
OrchPurge ==
    /\ opc = "loop"
    /\ i <= NumModels
    /\ LET d2 == remove_files(Range(watch_paths(analysis_type)))
       IN  /\ disk' = d2
           /\ errlines' = PurgedLines(d2)
    /\ IF skip_item(i, start_index, end_index)
       THEN /\ report_dct' = [report_dct EXCEPT !.skipped = Append(@, i)]
            /\ i' = i + 1
            /\ opc' = "loop"
       ELSE /\ opc' = "start"
            /\ UNCHANGED <<report_dct, i>>
    /\ UNCHANGED <<cfgVars, queue, watchVars, cpc, copied, dirs, tst, late, hist>>

\* run_batch: construct and start the watcher, then enter run_subprocess
OrchStart ==
    /\ opc = "start"
    /\ wpc' = [wpc EXCEPT ![i] = "started"]
    /\ running' = [running EXCEPT ![i] = FALSE]
    /\ tst' = [tst EXCEPT ![i] = "run"]
    /\ opc' = "call"
    /\ hist' = [hist EXCEPT ![i].exd = {p \in DOMAIN disk : Exists(p)}]
    /\ UNCHANGED <<cfgVars, i, report_dct, queue, wfiles, original_jobs, new_dir,
                   pos, cpc, copied, disk, errlines, dirs, late>>

\* the orchestrator records an in-time return as successful in every mode
tally_any_mode(dct, analysis, m, finished) ==
    IF finished THEN [dct EXCEPT !.successful = Append(@, m)]
    ELSE [dct EXCEPT !.expired = Append(@, m)]

\* the tallies after run_subprocess returned `finished` for model m
tally_after_call(dct, analysis, m, finished) ==
    LET d1 == IF ~finished THEN [dct EXCEPT !.expired = Append(@, m)] ELSE dct
    IN  IF analysis = "sbem" /\ finished
        THEN [d1 EXCEPT !.successful = Append(@, m)]
        ELSE d1

\* stop() called on the timeout path only
stop_on_timeout(analysis, finished) == ~finished

\* whether run_batch calls stop() on the watcher after the process call
stop_after_call(analysis, finished) == ~finished \/ analysis = "sbem"

\* run_subprocess returns (in time or by timeout expiry) and run_batch reacts
OrchAfterCall(finished) ==
    /\ opc = "call"
    /\ report_dct' = tally_after_call(report_dct, analysis_type, i, finished)
    /\ report_file' = IF finished THEN report_file
                      ELSE write_line(report_file, [kind |-> "timeout", model |-> i])
    /\ running' = IF stop_after_call(analysis_type, finished)
                  THEN Watcher_stop(running, i) ELSE running
    /\ hist' = [hist EXCEPT ![i].stopped = stop_after_call(analysis_type, finished),
                            ![i].timedout = ~finished]
    /\ i' = i + 1
    /\ opc' = "loop"
    /\ UNCHANGED <<runVars, queue, wpc, wfiles, original_jobs, new_dir, pos, cpc,
                   copied, toolVars>>

\* a summary that leaves the failed runs out
summary_without_failed(rf, dct) ==
    write_line(rf, [kind |-> "summary", skipped |-> Len(dct.skipped),
                    expired |-> Len(dct.expired), failed |-> 0,
                    successful |-> Len(dct.successful)])

\* finish_report: the summary with the sizes of the four tallies
finish_report(rf, dct) ==
    write_line(rf, [kind |-> "summary", skipped |-> Len(dct.skipped),
                    expired |-> Len(dct.expired), failed |-> Len(dct.failed),
                    successful |-> Len(dct.successful)])

\* Collector.stop
Collector_stop(q) == put(q, DONE)

\* the wait loop left out
NoWait == TRUE

\* the wait `while threading.active_count() > 2` is over
NoChildThreads == ~(active_count > 2)

\* run_batch after the loop: wait for the child threads, stop the collector
OrchFinish ==
    /\ opc = "loop"
    /\ i > NumModels
    /\ NoChildThreads
    /\ report_file' = finish_report(report_file, report_dct)
    /\ queue' = Collector_stop(queue)
    /\ opc' = "done"
    /\ UNCHANGED <<runVars, i, report_dct, watchVars, cpc, copied, toolVars, hist>>

\* ---------------------------------------------------------------- watchers
\* the watcher hands its completion event to the queue and its thread ends
Emit(w, files, saw) ==
    /\ queue' = put(queue, Event(files, w))
    /\ wpc' = [wpc EXCEPT ![w] = "dead"]
    /\ hist' = [hist EXCEPT ![w].enq = @ + 1,
                            ![w].ev = files,
                            ![w].had = {p \in files : Exists(p)},
                            ![w].saw = saw,
                            ![w].src = IF saw = "none" THEN 0
                                       ELSE disk[join(WatchDir(w), "eplusout.err")],
                            ![w].alien = {p \in files : Exists(p) /\ disk[p] # w},
                            ![w].seen = IF wpc[w] = "tail"
                                        THEN @ \o SubSeq(errlines[WatchDir(w)], pos[w] + 1,
                                                         Len(errlines[WatchDir(w)]))
                                        ELSE @,
                            ![w].exd = @ \cap files]

\* Watcher.run, first statements: self._running = True; files = set()
WatcherBegin(w) ==
    /\ analysis_type = "sbem"
    /\ wpc[w] = "started"
    /\ running' = [running EXCEPT ![w] = TRUE]
    /\ wfiles' = [wfiles EXCEPT ![w] = {}]
    /\ wpc' = [wpc EXCEPT ![w] = "poll"]
    /\ UNCHANGED <<cfgVars, orchVars, report_dct, queue, original_jobs, new_dir,
                   pos, cpc, copied, toolVars, hist>>

\* every path of self.paths, readable or not
every_path(paths) == paths

\* the paths of self.paths that open() can read at this poll
readable(paths) == {p \in paths : Exists(p)}

\* Watcher.run, one iteration of `while self._running`
WatcherPoll(w) ==
    /\ analysis_type = "sbem"
    /\ wpc[w] = "poll"
    /\ running[w]
    /\ wfiles' = [wfiles EXCEPT ![w] = @ \cup readable(Range(watch_paths("sbem")))]
    /\ UNCHANGED <<cfgVars, orchVars, report_dct, queue, wpc, running,
                   original_jobs, new_dir, pos, cpc, copied, toolVars, hist>>

\* a put that waits until the collector has drained the queue
WatcherPutWhenDrained(w) ==
    /\ analysis_type = "sbem"
    /\ wpc[w] = "poll"
    /\ ~running[w]
    /\ queue = <<>>
    /\ Emit(w, wfiles[w], "none")
    /\ UNCHANGED <<cfgVars, orchVars, report_dct, running, wfiles, original_jobs,
                   new_dir, pos, cpc, copied, toolVars>>

\* Watcher.run, loop left: self.queue.put((files, self.model_name))
WatcherPut(w) ==
    /\ analysis_type = "sbem"
    /\ wpc[w] = "poll"
    /\ ~running[w]
    /\ Emit(w, wfiles[w], "none")
    /\ UNCHANGED <<cfgVars, orchVars, report_dct, running, wfiles, original_jobs,
                   new_dir, pos, cpc, copied, toolVars>>

\* EplusWatcher.run, first statements, and the snapshot that opens
\* check_simulation_method: original_jobs = list_dirs(self.job_server_dir)
EplusBegin(w) ==
    /\ analysis_type = "eplus"
    /\ wpc[w] = "started"
    /\ running' = [running EXCEPT ![w] = TRUE]
    /\ original_jobs' = [original_jobs EXCEPT ![w] = dirs]
    /\ wpc' = [wpc EXCEPT ![w] = "csm"]
    /\ hist' = [hist EXCEPT ![w].first =
                    IF Exists(join(StdDir, "eplusout.err")) THEN "std" ELSE "none"]
    /\ UNCHANGED <<cfgVars, orchVars, report_dct, queue, wfiles, new_dir, pos,
                   cpc, copied, toolVars>>

\* check_simulation_method, loop head: `if not self._running: break`
CsmCheck(w) ==
    /\ wpc[w] = "csm"
    /\ wpc' = [wpc EXCEPT ![w] = IF running[w] THEN "scan" ELSE "read"]
    /\ hist' = [hist EXCEPT ![w].cancelled = ~running[w]]
    /\ UNCHANGED <<cfgVars, orchVars, report_dct, queue, running, wfiles,
                   original_jobs, new_dir, pos, cpc, copied, toolVars>>

\* check_simulation_method, after the sleep: look for in.idf, the standard
\* status file and a new job directory
CsmScan(w) ==
    /\ wpc[w] = "scan"
    /\ LET in_pth == join(StdDir, "in.idf")
           std_err == join(StdDir, "eplusout.err")
           new_path == dirs \ original_jobs[w]
       IN  IF ~Exists(in_pth)
           THEN /\ wpc' = [wpc EXCEPT ![w] = "csm"]
                /\ UNCHANGED new_dir
           ELSE IF Exists(std_err)
           THEN /\ wpc' = [wpc EXCEPT ![w] = "read"]
                /\ UNCHANGED new_dir
           ELSE IF new_path # {}
           THEN /\ \E d \in new_path : new_dir' = [new_dir EXCEPT ![w] = d]
                /\ wpc' = [wpc EXCEPT ![w] = "read"]
           ELSE /\ wpc' = [wpc EXCEPT ![w] = "csm"]
                /\ UNCHANGED new_dir
    /\ UNCHANGED <<cfgVars, orchVars, report_dct, queue, running, wfiles,
                   original_jobs, pos, cpc, copied, toolVars, hist>>

\* the substring test `marker in path` of the failure filter; no directory
\* name of the model contains a file name
contains(p, marker) == basename(p) = marker

\* the failure filter left out
keep_all(files) == files

\* EplusWatcher.run: the files kept when the simulation failed
failed_files(files) ==
    {p \in files : contains(p, "eplusout.err") \/ contains(p, "in.idf")}

\* the failure filter applied whatever the outcome
always_filtered(w, success) ==
    failed_files({files_dct(w)[n] : n \in DOMAIN files_dct(w)})

\* EplusWatcher.run: the files put into the completion event
event_files(w, success) ==
    LET files == {files_dct(w)[n] : n \in DOMAIN files_dct(w)}
    IN  IF ~success THEN failed_files(files) ELSE files

\* EplusWatcher.run: the tally the watcher appends the model to
watcher_tally(dct, w, success) ==
    IF ~success THEN [dct EXCEPT !.failed = Append(@, w)]
    ELSE [dct EXCEPT !.successful = Append(@, w)]

\* EplusWatcher.run after read_err_file returned `success`
EplusFinish(w, success, saw) ==
    /\ report_dct' = watcher_tally(report_dct, w, success)
    /\ report_file' = IF success THEN report_file
                      ELSE write_line(report_file, [kind |-> "failed", model |-> w])
    /\ Emit(w, event_files(w, success), saw)

\* a stop that is reported as a failed simulation
stop_is_failure == FALSE

\* read_err_file: what it returns when it finds the flag cleared
stop_result == TRUE

\* read_err_file, outer loop head: `if not self._running: return True`
ReadCheck(w) ==
    /\ wpc[w] = "read"
    /\ IF running[w]
       THEN /\ wpc' = [wpc EXCEPT ![w] = "exists"]
            /\ UNCHANGED <<report_dct, report_file, queue, hist>>
       ELSE EplusFinish(w, stop_result, "none")
    /\ UNCHANGED <<runVars, orchVars, running, wfiles, original_jobs, new_dir,
                   pos, cpc, copied, toolVars>>

\* read_err_file, after the sleep: wait for the status file, then open it
ReadExists(w) ==
    /\ wpc[w] = "exists"
    /\ IF Exists(err_pth(w))
       THEN /\ wpc' = [wpc EXCEPT ![w] = "tail"]
            /\ pos' = [pos EXCEPT ![w] = 0]
       ELSE /\ wpc' = [wpc EXCEPT ![w] = "read"]
            /\ UNCHANGED pos
    /\ UNCHANGED <<cfgVars, orchVars, report_dct, queue, running, wfiles,
                   original_jobs, new_dir, cpc, copied, toolVars, hist>>

\* f.readlines(): the lines appended since the last read
new_lines(lines, from) ==
    IF Len(lines) > from THEN SubSeq(lines, from + 1, Len(lines)) ELSE <<>>

\* the last terminal line of a batch decides
last_terminal(lines) ==
    LET ts == {k \in 1..Len(lines) : lines[k] \in {"success", "fatal"}}
    IN  IF ts = {} THEN "none" ELSE lines[CHOOSE k \in ts : \A j \in ts : j <= k]

\* the first terminal line of a batch of lines decides: "success", "fatal",
\* or "none" when the batch has no terminal line
RECURSIVE first_terminal(_)
first_terminal(lines) ==
    IF lines = <<>> THEN "none"
    ELSE IF Head(lines) = "success" THEN "success"
    ELSE IF Head(lines) = "fatal" THEN "fatal"
    ELSE first_terminal(Tail(lines))

\* read_err_file, one iteration of the inner loop over the open status file
ReadTail(w) ==
    /\ wpc[w] = "tail"
    /\ LET lines == errlines[WatchDir(w)]
           t == first_terminal(new_lines(lines, pos[w]))
       IN  IF t = "success" THEN EplusFinish(w, TRUE, "success") /\ UNCHANGED pos
           ELSE IF t = "fatal" THEN EplusFinish(w, FALSE, "fatal") /\ UNCHANGED pos
           ELSE IF ~running[w] THEN EplusFinish(w, stop_result, "none") /\ UNCHANGED pos
           ELSE /\ pos' = [pos EXCEPT ![w] = IF Len(lines) > @ THEN Len(lines) ELSE @]
                /\ hist' = [hist EXCEPT ![w].seen = @ \o new_lines(lines, pos[w])]
                /\ UNCHANGED <<report_dct, report_file, queue, wpc>>
    /\ UNCHANGED <<runVars, orchVars, running, wfiles, original_jobs, new_dir,
                   cpc, copied, toolVars>>

\* --------------------------------------------------------------- collector
\* a copy that gives up on the whole event when one source cannot be copied
copy_all_or_nothing(srcs, model_name) ==
    IF \A s \in srcs : Exists(s) THEN {<<model_name, s>> : s \in srcs} ELSE {}

\* copy_files: copy_file is called for every source; a copy that fails
\* (IOError, here a source that is gone) is printed and the loop goes on
copy_files(srcs, model_name) ==
    {<<model_name, p>> : p \in {s \in srcs : Exists(s)}}

\* a drain loop that also ends on an event without files
done_or_empty(res) == res = DONE \/ res.files = {}

\* Collector.run: `if res == "DONE": break`
is_done(res) == res = DONE

\* Collector.run: one iteration of the drain loop
CollectorRun ==
    /\ cpc = "run"
    /\ queue # <<>>
    /\ LET res == Head(queue)
       IN  IF is_done(res)
           THEN /\ cpc' = "dead"
                /\ UNCHANGED <<copied, hist>>
           ELSE /\ copied' = copied \cup copy_files(res.files, res.model_name)
                /\ hist' = [hist EXCEPT ![res.model_name].proc = @ + 1,
                                     ![res.model_name].lost = {p \in hist[res.model_name].had : ~Exists(p)},
                                     ![res.model_name].had = {},
                                     ![res.model_name].ord =
                                         1 + Cardinality({m \in Models : hist[m].proc > 0})]
                /\ UNCHANGED cpc
    /\ queue' = dequeue(queue)
    /\ UNCHANGED <<cfgVars, orchVars, report_dct, watchVars, toolVars>>

\* -------------------------------------------------- the external program
\* DesignBuilder itself (input echo, choice of backend) acts while its process
\* call is in progress.  In eplus mode the simulation it launched is
\* asynchronous and may go on after the call returned, for at most MaxLate
\* further steps.
InCall(r) == opc = "call" /\ i = r

ToolMayAct(r) ==
    \/ InCall(r)
    \/ analysis_type = "eplus" /\ tst[r] # "off" /\ late[r] < MaxLate

Acted(r) == IF InCall(r) THEN late ELSE [late EXCEPT ![r] = @ + 1]

ToolDir(r) == IF tst[r] = "std" THEN StdDir ELSE JobDir(r)

\* sbem: the tool writes one of the watched files
ToolSbemWrite(r) ==
    /\ analysis_type = "sbem"
    /\ ToolMayAct(r)
    /\ \E p \in SbemOutPaths :
        /\ disk[p] # r
        /\ disk' = [disk EXCEPT ![p] = r]
        /\ hist' = note_written(hist, {p})
    /\ UNCHANGED <<cfgVars, orchVars, report_dct, queue, watchVars, cpc, copied,
                   errlines, dirs, tst, late>>

\* eplus: the input echo in.idf is generated in the standard directory
ToolWriteIdf(r) ==
    /\ analysis_type = "eplus"
    /\ InCall(r)
    /\ tst[r] = "run"
    /\ disk' = [disk EXCEPT ![join(StdDir, "in.idf")] = r]
    /\ tst' = [tst EXCEPT ![r] = "idf"]
    /\ hist' = note_written(hist, {join(StdDir, "in.idf")})
    /\ UNCHANGED <<cfgVars, orchVars, report_dct, queue, watchVars, cpc, copied,
                   errlines, dirs, late>>

\* eplus, standard backend: the simulation starts in the standard directory,
\* creating its status file and eplusout.eso
ToolStandard(r) ==
    /\ analysis_type = "eplus"
    /\ InCall(r)
    /\ tst[r] = "idf"
    /\ disk' = [disk EXCEPT ![join(StdDir, "eplusout.err")] = r,
                            ![join(StdDir, "eplusout.eso")] = r]
    /\ errlines' = [errlines EXCEPT ![StdDir] = <<>>]
    /\ tst' = [tst EXCEPT ![r] = "std"]
    /\ hist' = note_written(note_first(hist, "std", StdDir),
                             {join(StdDir, "eplusout.err"), join(StdDir, "eplusout.eso")})
    /\ UNCHANGED <<cfgVars, orchVars, report_dct, queue, watchVars, cpc, copied,
                   dirs, late>>

\* eplus, managed backend: the job server creates a subdirectory for the run
ToolManaged(r) ==
    /\ analysis_type = "eplus"
    /\ InCall(r)
    /\ tst[r] = "idf"
    /\ dirs' = dirs \cup {JobDir(r)}
    /\ disk' = [disk EXCEPT ![join(JobDir(r), "in.idf")] = r]
    /\ tst' = [tst EXCEPT ![r] = "mgr"]
    /\ hist' = note_written(note_first(hist, "job", JobDir(r)),
                             {join(JobDir(r), "in.idf")})
    /\ UNCHANGED <<cfgVars, orchVars, report_dct, queue, watchVars, cpc, copied,
                   errlines, late>>

\* eplus, managed backend: the simulation starts in the job subdirectory,
\* creating its status file and eplusout.eso
ToolJobErr(r) ==
    /\ analysis_type = "eplus"
    /\ ToolMayAct(r)
    /\ tst[r] = "mgr"
    /\ disk' = [disk EXCEPT ![join(JobDir(r), "eplusout.err")] = r,
                            ![join(JobDir(r), "eplusout.eso")] = r]
    /\ tst' = [tst EXCEPT ![r] = "job"]
    /\ late' = Acted(r)
    /\ hist' = note_written(hist, {join(JobDir(r), "eplusout.err"),
                                    join(JobDir(r), "eplusout.eso")})
    /\ UNCHANGED <<cfgVars, orchVars, report_dct, queue, watchVars, cpc, copied,
                   errlines, dirs>>

\* eplus: the simulation appends a line to its own status file; the tabular
\* report eplustbl.htm is written just before the success line
ToolAppendUpTo(r, kind, n) ==
    /\ analysis_type = "eplus"
    /\ ToolMayAct(r)
    /\ tst[r] \in {"std", "job"}
    /\ disk[join(ToolDir(r), "eplusout.err")] = r
    /\ Len(errlines[ToolDir(r)]) < n
    /\ errlines' = [errlines EXCEPT ![ToolDir(r)] = Append(@, kind)]
    /\ disk' = IF kind = "success"
               THEN [disk EXCEPT ![join(ToolDir(r), "eplustbl.htm")] = r]
               ELSE disk
    /\ late' = Acted(r)
    /\ hist' = IF kind = "success"
               THEN note_written(hist, {join(ToolDir(r), "eplustbl.htm")})
               ELSE hist
    /\ UNCHANGED <<cfgVars, orchVars, report_dct, queue, watchVars, cpc, copied,
                   dirs, tst>>

ToolAppend(r, kind) == ToolAppendUpTo(r, kind, MaxLines)

\* ---------------------------------------------------------------- copy_file
\* A file name is the sequence of its characters, a path the sequence of its
\* components.
SrcDir == <<"e", "p">>
ResultsRoot == <<"o", "u", "t">>

SrcNames ==
    {<<"f", "o", "o", ".", "c", "s", "v">>,
     <<"i", "n", ".", "i", "d", "f">>,
     <<"a", ".", "b", ".", "c">>,
     <<".", "r", "c">>,
     <<"l", "o", "g">>}

\* model names: none given, "M", "M2"
ModelNames == {<<>>, <<"M">>, <<"M", "2">>}

\* file_name: os.path.basename
file_name(pth) == pth[Len(pth)]

\* os.path.splitext: the extension starts at the last dot, unless only dots
\* come before it
splitext(name) ==
    LET dots == {k \in 1..Len(name) : name[k] = "."}
        d == IF dots = {} THEN 0 ELSE CHOOSE k \in dots : \A j \in dots : j <= k
    IN  IF d > 0 /\ \E k \in 1..(d - 1) : name[k] # "."
        THEN <<SubSeq(name, 1, d - 1), SubSeq(name, d, Len(name))>>
        ELSE <<name, <<>>>>

\* split_file_name_ext
split_file_name_ext(pth) == splitext(file_name(pth))

\* a title that drops the original name
title_model_only(model_name, orig_name, ext, include_orig_name) ==
    model_name \o ext

\* copy_file: the title when the model name is included
title(model_name, orig_name, ext, include_orig_name) ==
    IF include_orig_name
    THEN model_name \o <<" ", "-", " ">> \o orig_name \o ext
    ELSE model_name \o ext

\* copy_file: the destination path of the copy
copy_file(src, dest, model_name, include_model_name, make_subdirs, include_orig_name) ==
    LET orig_name == split_file_name_ext(src)[1]
        ext == split_file_name_ext(src)[2]
        out == IF model_name # <<>> /\ include_model_name
               THEN title(model_name, orig_name, ext, include_orig_name)
               ELSE file_name(src)
    IN  IF make_subdirs /\ model_name # <<>>
        THEN <<dest, model_name, out>>
        ELSE <<dest, out>>

\* the calls of copy_file that are looked at
CopyCalls ==
    [called : {FALSE}, src : {<<SrcDir, n>> : n \in SrcNames},
     model_name : ModelNames, include_model_name : BOOLEAN,
     make_subdirs : BOOLEAN, include_orig_name : BOOLEAN, out : {<<>>}]

CopyInit ==
    BatchInit /\ cf \in CopyCalls /\ report_file = NoReport /\ ow = NoCopies

\* one call of copy_file
CopyFileCall ==
    /\ ~cf.called
    /\ cf' = [cf EXCEPT !.called = TRUE,
                        !.out = copy_file(cf.src, ResultsRoot, cf.model_name,
                                          cf.include_model_name, cf.make_subdirs,
                                          cf.include_orig_name)]
    /\ UNCHANGED <<analysis_type, start_index, end_index, orchVars, report_dct,
                   queue, watchVars, cpc, copied, toolVars, hist, su, report_file, kp, ow>>

CopySpec == CopyInit /\ [][CopyFileCall]_vars

\* ------------------------------------------- two copies into one results tree
\* watched files of two result directories: "41e/m.inp", "41e/m_e.inp",
\* "41e/in.idf" and the same names under "54a"
OwDirs == {<<"4", "1", "e">>, <<"5", "4", "a">>}
OwNames ==
    {<<"m", ".", "i", "n", "p">>,
     <<"m", "_", "e", ".", "i", "n", "p">>,
     <<"i", "n", ".", "i", "d", "f">>}

\* a file of a completion event: its source path and the model of the event
OwFiles == [src : {<<d, n>> : d \in OwDirs, n \in OwNames},
            model_name : {<<"M">>, <<"M", "2">>}]

\* the Collector copies with the flags it was constructed with
OwDest(f, o) ==
    copy_file(f.src, ResultsRoot, f.model_name, o.include_model_name,
              o.make_subdirs, o.include_orig_name)

\* two different files, of one event or of two work items
OwInit ==
    /\ BatchInit
    /\ cf = NoCall
    /\ report_file = NoReport
    /\ ow \in [pc : {"first"}, a : OwFiles, b : OwFiles,
                include_model_name : BOOLEAN, make_subdirs : BOOLEAN,
                include_orig_name : BOOLEAN, tree : {{}}, overwritten : {FALSE}]
    /\ ow.a # ow.b

owFrame == <<analysis_type, start_index, end_index, cf, su, kp, report_file, cpc,
             orchVars, report_dct, queue, watchVars, copied, toolVars, hist>>

\* copyfile(src, dest): the destination now holds the content of f
copyfile(tree, f, dest) ==
    {e \in tree : e.dest # dest} \cup {[dest |-> dest, file |-> f]}

\* copy_file of the first file
OwFirst ==
    /\ ow.pc = "first"
    /\ ow' = [ow EXCEPT !.pc = "second",
                        !.tree = copyfile(@, ow.a, OwDest(ow.a, ow))]
    /\ UNCHANGED owFrame

\* copy_file of the second file
OwSecond ==
    /\ ow.pc = "second"
    /\ ow' = [ow EXCEPT !.pc = "done",
                        !.tree = copyfile(@, ow.b, OwDest(ow.b, ow)),
                        !.overwritten = \E e \in ow.tree : e.dest = OwDest(ow.b, ow)]
    /\ UNCHANGED owFrame

OverwriteNext == OwFirst \/ OwSecond

OverwriteSpec == OwInit /\ [][OverwriteNext]_vars

\* ------------------------------------------------------------ specification
Orchestrator ==
    \/ OrchPurge
    \/ OrchStart
    \/ \E finished \in BOOLEAN : OrchAfterCall(finished)
    \/ OrchFinish

WatcherStep(w) ==
    \/ WatcherBegin(w)
    \/ WatcherPoll(w)
    \/ WatcherPut(w)
    \/ EplusBegin(w)
    \/ CsmCheck(w)
    \/ CsmScan(w)
    \/ ReadCheck(w)
    \/ ReadExists(w)
    \/ ReadTail(w)

Tool ==
    \E r \in Models :
        \/ ToolSbemWrite(r)
        \/ ToolWriteIdf(r)
        \/ ToolStandard(r)
        \/ ToolManaged(r)
        \/ ToolJobErr(r)
        \/ \E kind \in LineKinds : ToolAppend(r, kind)

Next ==
    \/ Orchestrator
    \/ \E w \in Models : WatcherStep(w)
    \/ CollectorRun
    \/ Tool

Spec == Init /\ [][Next]_vars

\* threads are scheduled fairly and every external-process call returns; the
\* external program itself owes nothing
FairInit == Init /\ end_index = 1

\* batches in which exactly one item lies in the requested range
OneRunInit == Init /\ start_index = (IF end_index = 0 THEN NumModels ELSE end_index)

OneRunSpec == OneRunInit /\ [][Next]_vars

\* one run in range whose status file grows to MaxTailLines lines
TailTool ==
    \E r \in Models :
        \/ ToolSbemWrite(r)
        \/ ToolWriteIdf(r)
        \/ ToolStandard(r)
        \/ ToolManaged(r)
        \/ ToolJobErr(r)
        \/ \E kind \in LineKinds : ToolAppendUpTo(r, kind, MaxTailLines)

TailNext ==
    \/ Orchestrator
    \/ \E w \in Models : WatcherStep(w)
    \/ CollectorRun
    \/ TailTool

TailSpec == OneRunInit /\ [][TailNext]_vars

\* ------------------------------------------- run_batch before the item loop
\* values of the analysis_type argument that are looked at
AnalysisInputs == {"eplus", "sbem", "dsm", "none", "EPLUS"}

\* values of the watch_files argument that are looked at, besides "default"
WatchFilesInputs ==
    {{}, {"in.idf"}, {"eplusout.err"}, {"in.idf", "eplusout.err"},
     {"eplusout.eso", "eplustbl.htm"}, Range(WATCH_EPLUS)}

\* str.lower on the analysis inputs
lower(a) == IF a = "EPLUS" THEN "eplus" ELSE a

\* a get_loc that accepts every analysis type
get_loc_accepts_all(analysis) == FALSE

\* get_loc raises IncorrectAnalysisType
get_loc_raises(analysis) == lower(analysis) \notin {"eplus", "sbem"}

\* create_cmnd raises KeyError: "none" adds no command, the other keys are
\* those of its `types`
create_cmnd_raises(analysis) == analysis \notin {"none", "eplus", "sbem", "dsm"}

\* watcher() raises: KeyError for an unknown key, Exception for "dsm"
watcher_raises(analysis) == analysis \notin {"sbem", "eplus"}

\* run_batch, the test that raises IncorrectFilesRequest
files_request_rejected(analysis, watch_files) ==
    analysis = "eplus" /\ "in.idf" \notin watch_files /\ "eplusout.err" \notin watch_files

Raise(e) == [su EXCEPT !.pc = "raised", !.err = e]
Goto(pc) == [su EXCEPT !.pc = pc]

loopVars == <<i, opc, report_dct, queue, watchVars, copied, toolVars, hist>>

\* the arguments of a call of run_batch; the requested range holds one item
\* whenever start_index is accepted
SetupInit ==
    /\ analysis_type \in AnalysisInputs
    /\ start_index \in 0..(NumModels + 1)
    /\ end_index = (IF start_index >= NumModels THEN 0
                    ELSE IF start_index = 0 THEN 1 ELSE start_index)
    /\ i = 1
    /\ opc = "loop"
    /\ report_dct = [skipped |-> <<>>, expired |-> <<>>, failed |-> <<>>,
                     successful |-> <<>>]
    /\ queue = <<>>
    /\ wpc = [w \in Models |-> "none"]
    /\ running = [w \in Models |-> FALSE]
    /\ wfiles = [w \in Models |-> {}]
    /\ original_jobs = [w \in Models |-> {}]
    /\ new_dir = [w \in Models |-> "none"]
    /\ pos = [w \in Models |-> 0]
    /\ cpc = "off"
    /\ copied = {}
    /\ disk = [p \in DiskPaths |-> 0]
    /\ errlines = [d \in {StdDir} \cup JobDirs |-> <<>>]
    /\ dirs = {}
    /\ tst = [r \in Models |-> "off"]
    /\ late = [r \in Models |-> 0]
    /\ hist = [m \in Models |-> NoHist]
    /\ cf = NoCall
    /\ kp = Killed
    /\ ow = NoCopies
    /\ report_file \in [requested : BOOLEAN, lines : {<<>>}]
    /\ su \in [pc : {"list"}, err : {"none"}, root_ok : BOOLEAN,
                model_paths : {0, NumModels}, db_pth_ok : BOOLEAN,
                default : BOOLEAN, watch_files : WatchFilesInputs]
    /\ su.default => su.watch_files = {}
    /\ ~su.root_ok => su.model_paths = 0

\* kill_process; list_files; `if not model_paths: raise NoDsbFileFound`
SuListFiles ==
    /\ su.pc = "list"
    /\ su' = IF ~su.root_ok THEN Raise("FileNotFoundError")
             ELSE IF su.model_paths = 0 THEN Raise("NoDsbFileFound")
             ELSE Goto("exe")
    /\ UNCHANGED <<analysis_type, start_index, end_index, cf, kp, ow, report_file, cpc,
                   loopVars>>

\* `if not os.path.isfile(db_pth): raise InvalidDBExePath`
SuCheckExe ==
    /\ su.pc = "exe"
    /\ su' = IF ~su.db_pth_ok THEN Raise("InvalidDBExePath") ELSE Goto("files")
    /\ UNCHANGED <<analysis_type, start_index, end_index, cf, kp, ow, report_file, cpc,
                   loopVars>>

\* the default watch files, then the test of the request
SuWatchFiles ==
    /\ su.pc = "files"
    /\ LET wf == IF su.default THEN Range(default_watch_files(analysis_type))
                 ELSE su.watch_files
       IN  su' = IF files_request_rejected(analysis_type, wf)
                 THEN [Raise("IncorrectFilesRequest") EXCEPT !.watch_files = wf]
                 ELSE [Goto("index") EXCEPT !.watch_files = wf]
    /\ UNCHANGED <<analysis_type, start_index, end_index, cf, kp, ow, report_file, cpc,
                   loopVars>>

\* `start_index = 1 if not start_index else start_index`, then its test
SuCheckStart ==
    /\ su.pc = "index"
    /\ LET s1 == IF start_index = 0 THEN 1 ELSE start_index
       IN  /\ start_index' = s1
           /\ su' = IF s1 > su.model_paths THEN Raise("InvalidStartingIndex")
                    ELSE Goto("collector")
    /\ UNCHANGED <<analysis_type, end_index, cf, kp, ow, report_file, cpc, loopVars>>

\* queue = Queue(); collector.start(); create_dir(outputs_root_dir)
SuStartCollector ==
    /\ su.pc = "collector"
    /\ cpc' = "run"
    /\ su' = Goto("report")
    /\ UNCHANGED <<analysis_type, start_index, end_index, cf, kp, ow, report_file,
                   loopVars>>

\* the empty tallies; init_report writes the header when a report is requested
SuInitReport ==
    /\ su.pc = "report"
    /\ report_file' = write_line(report_file, [kind |-> "header"])
    /\ su' = Goto("loc")
    /\ UNCHANGED <<analysis_type, start_index, end_index, cf, kp, ow, cpc, loopVars>>

\* locs = get_loc(analysis_type)
SuGetLoc ==
    /\ su.pc = "loc"
    /\ su' = IF get_loc_raises(analysis_type) THEN Raise("IncorrectAnalysisType")
             ELSE Goto("cmnd")
    /\ UNCHANGED <<analysis_type, start_index, end_index, cf, kp, ow, report_file, cpc,
                   loopVars>>

\* watch_paths; cmnd = create_cmnd(...); the item loop is next
SuCreateCmnd ==
    /\ su.pc = "cmnd"
    /\ su' = IF create_cmnd_raises(analysis_type) THEN Raise("KeyError")
             ELSE Goto("loop")
    /\ UNCHANGED <<analysis_type, start_index, end_index, cf, kp, ow, report_file, cpc,
                   loopVars>>

Setup ==
    \/ SuListFiles
    \/ SuCheckExe
    \/ SuWatchFiles
    \/ SuCheckStart
    \/ SuStartCollector
    \/ SuInitReport
    \/ SuGetLoc
    \/ SuCreateCmnd

\* the item loop and its threads, once run_batch has entered the loop; the
\* call watcher(analysis_type) of the loop body raises for an analysis type
\* it does not know; the loop is followed for the default watch files
InLoop ==
    /\ su.pc = "loop"
    /\ IF opc = "start" /\ watcher_raises(analysis_type)
       THEN /\ su' = Raise("KeyError")
            /\ UNCHANGED <<analysis_type, start_index, end_index, cf, kp, ow,
                           report_file, cpc, loopVars>>
       ELSE /\ su.watch_files = Range(default_watch_files(analysis_type))
            /\ Next

SetupNext == Setup \/ InLoop

SetupSpec == SetupInit /\ [][SetupNext]_vars

\* run_batch from its call with its threads scheduled fairly: the main thread
\* goes on while it has a statement to execute, and so do the watcher threads
\* and the collector thread; the watch files are the default ones, for which
\* the item loop is followed
SetupFairInit == SetupInit /\ su.default

SetupFairSpec ==
    /\ SetupFairInit
    /\ [][SetupNext]_vars
    /\ WF_vars(Setup)
    /\ WF_vars(InLoop /\ Orchestrator)
    /\ \A w \in Models : WF_vars(InLoop /\ WatcherStep(w))
    /\ WF_vars(InLoop /\ CollectorRun)

\* batches that write the summary file: init_report has written the header
ReportInit ==
    /\ BatchInit
    /\ cf = NoCall
    /\ report_file = [requested |-> TRUE, lines |-> <<[kind |-> "header"]>>]
    /\ ow = NoCopies

ReportSpec == ReportInit /\ [][Next]_vars

\* ----------------------------------------------------------- kill_process
\* a process table entry: "run" (a DesignBuilder.exe that exits when asked to),
\* "hang" (one that ignores the request), "gone" (no such process); "exiting"
\* is a process that was asked to terminate and is on its way out
ProcStates == {"run", "hang", "gone"}

Live(procs) == {n \in Instances : procs[n] # "gone"}

\* get_process: the first process of psutil.process_iter() with that name,
\* as a set of at most one process
get_process(procs) ==
    IF Live(procs) = {} THEN {}
    ELSE {CHOOSE n \in Live(procs) : \A k \in Live(procs) : n <= k}

\* run_batch is called while any of the instances may be running
KillInit ==
    /\ analysis_type = "sbem"
    /\ start_index = 1
    /\ end_index = 0
    /\ i = 1
    /\ opc = "loop"
    /\ report_dct = [skipped |-> <<>>, expired |-> <<>>, failed |-> <<>>,
                     successful |-> <<>>]
    /\ queue = <<>>
    /\ wpc = [w \in Models |-> "none"]
    /\ running = [w \in Models |-> FALSE]
    /\ wfiles = [w \in Models |-> {}]
    /\ original_jobs = [w \in Models |-> {}]
    /\ new_dir = [w \in Models |-> "none"]
    /\ pos = [w \in Models |-> 0]
    /\ cpc = "off"
    /\ copied = {}
    /\ disk = [p \in DiskPaths |-> 0]
    /\ errlines = [d \in {StdDir} \cup JobDirs |-> <<>>]
    /\ dirs = {}
    /\ tst = [r \in Models |-> "off"]
    /\ late = [r \in Models |-> 0]
    /\ hist = [m \in Models |-> NoHist]
    /\ cf = NoCall
    /\ report_file = NoReport
    /\ su = [Entered("sbem") EXCEPT !.pc = "kill"]
    /\ ow = NoCopies
    /\ kp \in [pc : {"get"}, db : {0}, forced : {FALSE},
                procs : [Instances -> ProcStates]]

killFrame == <<analysis_type, start_index, end_index, cf, su, ow, report_file,
               cpc, loopVars>>

\* db = get_process(name); `if db:`
KpGet ==
    /\ kp.pc = "get"
    /\ LET db == get_process(kp.procs)
       IN  kp' = IF db = {} THEN [kp EXCEPT !.pc = "done"]
                 ELSE [kp EXCEPT !.pc = "terminate", !.db = CHOOSE n \in db : TRUE]
    /\ UNCHANGED killFrame

\* db.terminate()
KpTerminate ==
    /\ kp.pc = "terminate"
    /\ kp' = [kp EXCEPT !.pc = "wait",
                        !.procs[kp.db] = IF @ = "run" THEN "exiting" ELSE @]
    /\ UNCHANGED killFrame

\* gone, alive = psutil.wait_procs([db], timeout=3): the grace period
KpWait ==
    /\ kp.pc = "wait"
    /\ kp' = IF kp.procs[kp.db] = "exiting"
             THEN [kp EXCEPT !.pc = "done", !.procs[kp.db] = "gone"]
             ELSE [kp EXCEPT !.pc = "kill"]
    /\ UNCHANGED killFrame

\* for p in alive: p.kill()
KpKill ==
    /\ kp.pc = "kill"
    /\ kp' = [kp EXCEPT !.pc = "done", !.forced = TRUE, !.procs[kp.db] = "gone"]
    /\ UNCHANGED killFrame

KillNext == KpGet \/ KpTerminate \/ KpWait \/ KpKill

KillSpec == KillInit /\ [][KillNext]_vars

FairSpec ==
    /\ FairInit
    /\ [][Next]_vars
    /\ WF_vars(Orchestrator)
    /\ \A w \in Models : WF_vars(WatcherStep(w))
    /\ WF_vars(CollectorRun)

\* ------------------------------------------------------------------ claims
TallyCount(m) ==
    Count(report_dct.skipped, m) + Count(report_dct.expired, m)
        + Count(report_dct.failed, m) + Count(report_dct.successful, m)

LoopFinished == (opc = "loop" /\ i > NumModels) \/ opc = "done"
AllWatchersTerminated == \A w \in Models : ~Alive(w)
Skipped(m) == skip_item(m, start_index, end_index)
InQueue(m) == Cardinality({k \in 1..Len(queue) :
                              queue[k] # DONE /\ queue[k].model_name = m})
Sentinels == Cardinality({k \in 1..Len(queue) : queue[k] = DONE})
                 + (IF cpc = "dead" THEN 1 ELSE 0)

\* C1: once the item loop is over and every watcher thread has terminated,
\* every model is in exactly one of the four tallies, exactly once.
C1_TalliesPartition ==
    (LoopFinished /\ AllWatchersTerminated) => \A m \in Models : TallyCount(m) = 1

\* C2: when the orchestrator is about to purge the watch paths or to start the
\* watcher of an item, every watcher of an earlier item has terminated, and
\* two watcher threads are never alive at the same time.
C2_OneWatcherAtATime ==
    /\ Cardinality({w \in Models : Alive(w)}) <= 1
    /\ (opc = "start" \/ (opc = "loop" /\ i <= NumModels))
           => \A w \in Models : w < i => ~Alive(w)

\* C3: every file of a completion event that existed when the watcher
\* enqueued the event is still at its source path when the collector copies it.
C3_NoOutputDropped == \A m \in Models : hist[m].lost = {}

C5_SentinelLast ==
    /\ Sentinels <= 1
    /\ opc = "done" <=> Sentinels = 1
    /\ Sentinels = 1 =>
           /\ i > NumModels
           /\ AllWatchersTerminated
           /\ \A m \in Models : Skipped(m) \/ hist[m].enq = 1
    /\ \A k \in 1..Len(queue) : queue[k] = DONE => k = Len(queue)
    /\ cpc = "dead" => queue = <<>> /\ \A m \in Models : hist[m].proc = hist[m].enq

C5_Witness ==
    /\ cpc = "dead"
    /\ Cardinality({m \in Models : hist[m].proc = 1}) = NumModels

\* C6: under fair scheduling, with every process call returning, the batch
\* terminates: the orchestrator enqueues the shutdown signal and the collector
\* thread exits.
C6_BatchTerminates == <>(opc = "done" /\ cpc = "dead")

\* C7: once stop() has been called on a started watcher, the watcher thread
\* eventually enqueues its event and terminates.
C7_StopTerminatesWatcher ==
    \A w \in Models : hist[w].stopped ~> (wpc[w] = "dead")

\* C8: a run whose process call timed out is in the expired tally, its watcher
\* was stopped, and by the time the collector has exited its completion event
\* was emitted and every file of it that existed was copied.
C8_TimedOutRunCollected ==
    \A m \in Models :
        hist[m].timedout =>
            /\ Count(report_dct.expired, m) = 1
            /\ hist[m].stopped
            /\ cpc = "dead" =>
                   /\ hist[m].enq = 1
                   /\ hist[m].proc = 1
                   /\ hist[m].lost = {}

\* the watch path p as the watcher of model m resolved it
Rooted(m, p) == IF new_dir[m] = "none" THEN p ELSE join(new_dir[m], basename(p))

\* C9: a Log-Scanning watcher that saw the fatal-error marker emits exactly
\* the status file and the input echo, in the directory it resolved.
C9_FatalKeepsErrAndIdf ==
    \A m \in Models :
        hist[m].saw = "fatal" =>
            /\ hist[m].ev = {Rooted(m, join(StdDir, "eplusout.err")),
                             Rooted(m, join(StdDir, "in.idf"))}
            /\ Cardinality(hist[m].ev) = 2

C9_Witness ==
    \E m \in Models :
        /\ hist[m].saw = "fatal"
        /\ new_dir[m] = JobDir(m)
        /\ Exists(join(JobDir(m), "eplusout.eso"))

\* C10: a Log-Scanning watcher that saw the success marker emits every one of
\* the N watch paths, each under the job subdirectory when the managed backend
\* was resolved, so no path that exists is left out.
C10_SuccessKeepsAllPaths ==
    \A m \in Models :
        hist[m].saw = "success" =>
            /\ hist[m].ev = {Rooted(m, p) : p \in Range(watch_paths("eplus"))}
            /\ Cardinality(hist[m].ev) = Len(watch_paths("eplus"))
            /\ hist[m].proc = 0 => hist[m].had \subseteq hist[m].ev

C10_Witness ==
    \E m \in Models :
        /\ hist[m].saw = "success"
        /\ new_dir[m] = JobDir(m)
        /\ hist[m].proc = 0
        /\ hist[m].had = {join(JobDir(m), n) : n \in Range(WATCH_EPLUS)}

\* C11: a Log-Scanning watcher whose backend resolution was not cancelled by
\* stop() has rewritten its paths under a new job subdirectory when such a
\* subdirectory appeared (relative to its snapshot) before the standard-mode
\* status file, and has rewritten nothing when the standard-mode status file
\* appeared first.
C11_BackendResolution ==
    \A w \in Models :
        (wpc[w] \in {"read", "exists", "tail", "dead"} /\ ~hist[w].cancelled) =>
            /\ hist[w].first = "job" => new_dir[w] \in dirs \ original_jobs[w]
            /\ hist[w].first = "std" => new_dir[w] = "none"

\* C12: a watcher decides its outcome only from a status file written by its
\* own run, emits no file produced by another run, and under the managed
\* backend resolves only the job subdirectory its own run created.
C12_NoMisattribution ==
    \A m \in Models :
        /\ hist[m].saw # "none" => hist[m].src = m
        /\ hist[m].alien = {}
        /\ new_dir[m] \in {"none", JobDir(m)}

\* the requested range of 1-based positions; end_index 0 stands for none
InRange(m) == m >= start_index /\ (end_index = 0 \/ m <= end_index)

\* the item loop has passed its skip test for item m
Decided(m) == m < i \/ (m = i /\ opc # "loop")

\* C13 (the skip decision): an item is in the skipped tally exactly when its
\* position is outside the requested range; a skipped item gets no watcher,
\* no process call and no completion event; every item in the range gets a
\* watcher and a process call.
C13_SkipDecision ==
    \A m \in Models :
        /\ Count(report_dct.skipped, m) = (IF Decided(m) /\ ~InRange(m) THEN 1 ELSE 0)
        /\ ~InRange(m) => wpc[m] = "none" /\ tst[m] = "off" /\ hist[m].enq = 0
        /\ (InRange(m) /\ (m < i \/ (m = i /\ opc = "call"))) =>
               wpc[m] # "none" /\ tst[m] # "off"

\* C13: the skip decision above, and in the final tallies the skipped tally
\* has one entry per item outside the range while the three other tallies
\* together have one entry per item inside it.
C13_SkippedOutsideRange ==
    /\ C13_SkipDecision
    /\ (LoopFinished /\ AllWatchersTerminated) =>
           /\ Len(report_dct.skipped) = Cardinality({m \in Models : ~InRange(m)})
           /\ Len(report_dct.expired) + Len(report_dct.failed)
                  + Len(report_dct.successful)
                  = Cardinality({m \in Models : InRange(m)})

\* C14: when remove_files has returned and the orchestrator is about to start
\* the watcher and the external process of an item, no file exists at any of
\* the watch paths.
C14_PurgeLeavesNothing ==
    opc = "start" => \A p \in Range(watch_paths(analysis_type)) : ~Exists(p)

\* the collector thread handles the completion event of model m in this step
Copies(m) == hist'[m].proc = hist[m].proc + 1

\* C15: the collector thread leaves its drain loop only in a step that pops
\* the shutdown sentinel; popping a completion event never ends it, and while
\* the queue is empty the collector does nothing.
C15_OnlySentinelEndsCollector ==
    [][/\ (cpc = "run" /\ cpc' = "dead") => (queue # <<>> /\ Head(queue) = DONE)
       /\ (\E m \in Models : Copies(m)) => cpc' = "run"
       /\ queue = <<>> =>
              (cpc' = cpc /\ copied' = copied /\ \A m \in Models : ~Copies(m))]_vars

C15_Witness ==
    /\ cpc = "dead"
    /\ \E m \in Models : hist[m].proc = 1 /\ hist[m].lost # {}

\* C16: when the collector handles an event, every file of the event that can
\* be read is copied whether or not another file of the event fails to copy,
\* and the collector thread stays alive for the events that follow.
C16_CopyFailureContained ==
    [][\A m \in Models :
          Copies(m) =>
              /\ cpc' = "run"
              /\ \A p \in Head(queue).files : Exists(p) => <<m, p>> \in copied']_vars

C16_Witness ==
    \E m1, m2 \in Models :
        /\ hist[m1].ord = 1 /\ hist[m2].ord = 2
        /\ \E p \in hist[m1].ev : <<m1, p>> \notin copied
        /\ \E p \in hist[m1].ev : <<m1, p>> \in copied
        /\ \E p \in hist[m2].ev : <<m2, p>> \in copied

\* C17: for two items of the requested range, the completion event of the
\* later item is enqueued only after the event of the earlier item, and is
\* handled by the collector only after it.
C17_EventsInItemOrder ==
    \A m1, m2 \in Models :
        (m1 < m2 /\ InRange(m1) /\ InRange(m2)) =>
            /\ hist[m2].enq = 1 => hist[m1].enq = 1
            /\ hist[m2].proc = 1 => hist[m1].proc = 1

\* C18: the destination copy_file composes.  Its base name is
\* "<model> - <source name>" when the model name and the original name are
\* both included, "<model><extension>" when only the model name is, and the
\* source name when the model name is not included or none is given; the
\* file goes under <root>/<model>/ when subdirectories are requested and a
\* model name is given, and directly under <root>/ otherwise.  For model "M"
\* and source "foo.csv" the names are "M - foo.csv", "M.csv" and "foo.csv".
C18_DestinationName ==
    cf.called =>
        LET name == cf.src[2]
            M == cf.model_name
            base == cf.out[Len(cf.out)]
            foo == <<"f", "o", "o", ".", "c", "s", "v">>
        IN  /\ (M # <<>> /\ cf.include_model_name /\ cf.include_orig_name) =>
                   base = M \o <<" ", "-", " ">> \o name
            /\ (M # <<>> /\ cf.include_model_name /\ ~cf.include_orig_name) =>
                   \E k \in 0..Len(name) :
                       LET e == SubSeq(name, k + 1, Len(name))
                       IN  /\ base = M \o e
                           /\ e # <<>> => /\ e[1] = "."
                                          /\ \A j \in 2..Len(e) : e[j] # "."
            /\ (M = <<>> \/ ~cf.include_model_name) => base = name
            /\ cf.out = (IF cf.make_subdirs /\ M # <<>>
                         THEN <<ResultsRoot, M, base>> ELSE <<ResultsRoot, base>>)
            /\ (name = foo /\ M = <<"M">>) =>
                   base = (IF ~cf.include_model_name THEN foo
                           ELSE IF cf.include_orig_name
                           THEN <<"M", " ", "-", " ", "f", "o", "o", ".", "c", "s", "v">>
                           ELSE <<"M", ".", "c", "s", "v">>)

C18_Witness ==
    /\ cf.called
    /\ cf.src[2] = <<"f", "o", "o", ".", "c", "s", "v">>
    /\ cf.model_name = <<"M">>
    /\ cf.include_model_name /\ ~cf.include_orig_name /\ cf.make_subdirs
    /\ cf.out = <<ResultsRoot, <<"M">>, <<"M", ".", "c", "s", "v">>>>

\* C19: when run_batch has returned, the collector thread has terminated and
\* every completion event of the batch has been handled.
C19_ReturnsAfterCollector ==
    opc = "done" =>
        /\ cpc = "dead"
        /\ queue = <<>>
        /\ \A m \in Models : hist[m].proc = hist[m].enq

\* the full expected file set of watcher m, in the directory it resolved
FullSet(m) == {join(WatchDir(m), n) : n \in Range(WATCH_EPLUS)}

\* C20, as stated: a Log-Scanning watcher on which stop() took effect before
\* it had observed a terminal line ends as Successful.  In the step in which
\* it ends, the model is not in the failed tally, the event holds the full
\* expected file set, and the model is in the expired tally.
C20_StoppedBeforeTerminalLine ==
    [][\A m \in Models :
          (/\ analysis_type = "eplus"
           /\ hist[m].stopped /\ ~running[m]
           /\ wpc[m] # "dead" /\ wpc'[m] = "dead") =>
              /\ Count(report_dct'.failed, m) = 0
              /\ hist'[m].ev = FullSet(m)
              /\ Count(report_dct'.expired, m) = 1]_vars

\* C20, amended: a Log-Scanning watcher that finds its flag cleared at one of
\* its checks, having read no terminal line, ends as Successful: the model
\* is not in the failed tally, the event holds the full expected file set,
\* and the orchestrator has put the model in the expired tally.
C20_EndedByStop ==
    \A m \in Models :
        (analysis_type = "eplus" /\ hist[m].enq = 1 /\ hist[m].saw = "none") =>
            /\ hist[m].stopped /\ hist[m].timedout
            /\ Count(report_dct.failed, m) = 0
            /\ hist[m].ev = FullSet(m)
            /\ Cardinality(hist[m].ev) = Len(WATCH_EPLUS)
            /\ Count(report_dct.expired, m) = 1

C20_Witness ==
    \E m \in Models :
        /\ analysis_type = "eplus"
        /\ hist[m].enq = 1 /\ hist[m].saw = "none"
        /\ new_dir[m] = JobDir(m)
        /\ Exists(join(JobDir(m), "eplusout.err"))

\* the status file watcher m tails, while it is the file its own run wrote
OwnLog(m) == disk[join(WatchDir(m), "eplusout.err")] = m
LogOf(m) == errlines[WatchDir(m)]
TerminalAt(lines) == {k \in 1..Len(lines) : lines[k] \in {"success", "fatal"}}

\* C21: the lines a Log-Scanning watcher has read are the first lines of the
\* status file, each once and in file order; a watcher that ended on a
\* terminal line ended on the first terminal line of the file, Successful for
\* the success marker and Failed for the fatal-error marker, whatever was
\* appended after it; a watcher that ended without one had read none.
C21_FirstMatchWins ==
    \A m \in Models :
        (analysis_type = "eplus" /\ wpc[m] \in {"tail", "dead"} /\ OwnLog(m)) =>
            /\ Len(hist[m].seen) <= Len(LogOf(m))
            /\ hist[m].seen = SubSeq(LogOf(m), 1, Len(hist[m].seen))
            /\ wpc[m] = "tail" => pos[m] = Len(hist[m].seen) /\ TerminalAt(hist[m].seen) = {}
            /\ (wpc[m] = "dead" /\ hist[m].saw = "none") => TerminalAt(hist[m].seen) = {}
            /\ (wpc[m] = "dead" /\ hist[m].saw # "none") =>
                   /\ TerminalAt(LogOf(m)) # {}
                   /\ \E k \in TerminalAt(LogOf(m)) :
                          /\ \A j \in TerminalAt(LogOf(m)) : k <= j
                          /\ hist[m].saw = LogOf(m)[k]
                   /\ Count(report_dct.successful, m) = (IF hist[m].saw = "success" THEN 1 ELSE 0)
                   /\ Count(report_dct.failed, m) = (IF hist[m].saw = "fatal" THEN 1 ELSE 0)

C21_Witness ==
    \E m \in Models :
        /\ wpc[m] = "dead" /\ OwnLog(m)
        /\ hist[m].saw = "fatal"
        /\ LogOf(m) = <<"other", "fatal", "success">>
        /\ Len(hist[m].seen) = 2

\* C22: when stop() is called on a Log-Scanning watcher that has not resolved
\* its backend yet, the watcher leaves the resolution loop, emits its event
\* and terminates; a resolution left on the stop flag rewrites no path.
C22_ResolutionHonorsStop ==
    \A w \in Models :
        (analysis_type = "eplus" /\ hist[w].stopped
            /\ wpc[w] \in {"started", "csm", "scan"})
        ~> (wpc[w] = "dead" /\ (hist[w].cancelled => new_dir[w] = "none"))

\* C23: every path of every completion event existed on disk at some moment
\* of the lifetime of the watcher that emitted it.
C23_EventPathsExisted ==
    \A m \in Models : hist[m].enq = 1 => hist[m].ev \subseteq hist[m].exd

Called(m) == InRange(m) /\ m < i

\* C25: in sbem mode the step in which the process call returns calls stop()
\* on the watcher of that item whether or not the call timed out, and a second
\* stop() leaves the flag as the first one did; an item whose call has returned
\* is in the successful tally once exactly when the call returned in time and
\* in the expired tally once exactly when it timed out.
C25_SbemStopAndTally ==
    /\ [](analysis_type = "sbem" =>
            \A m \in Models :
                /\ Called(m) =>
                       /\ hist[m].stopped
                       /\ Count(report_dct.successful, m) =
                              (IF hist[m].timedout THEN 0 ELSE 1)
                       /\ Count(report_dct.expired, m) =
                              (IF hist[m].timedout THEN 1 ELSE 0)
                /\ ~Called(m) =>
                       /\ Count(report_dct.successful, m) = 0
                       /\ Count(report_dct.expired, m) = 0)
    /\ [][(analysis_type = "sbem" /\ opc = "call" /\ opc' # "call") =>
             /\ ~running'[i]
             /\ running' = Watcher_stop(running, i)
             /\ running' = Watcher_stop(Watcher_stop(running, i), i)
             /\ wpc'[i] = wpc[i]
             /\ i' = i + 1
         ]_vars

C25_Witness ==
    /\ analysis_type = "sbem"
    /\ \E m \in Models : Called(m) /\ hist[m].timedout /\ hist[m].stopped
    /\ \E m \in Models : Called(m) /\ ~hist[m].timedout /\ hist[m].stopped

\* a step of the run_batch thread / of the thread of watcher w: the step moves
\* that thread's position in its code
OrchestratorStep == orchVars' # orchVars
WatcherThreadStep(w) == wpc'[w] # wpc[w] /\ orchVars' = orchVars

TallyKinds == {"skipped", "expired", "failed", "successful"}

\* tally list `kind` gets model m appended in this step
Appends(kind, m) == report_dct'[kind] = Append(report_dct[kind], m)

\* every tally list is left alone or gets exactly one name appended
AppendOnly ==
    \A kind \in TallyKinds :
        \/ report_dct'[kind] = report_dct[kind]
        \/ \E m \in Models : Appends(kind, m)

\* C26: in both modes skipped and expired entries are appended only by steps
\* of the orchestrator thread and successful and failed entries only by steps
\* of a watcher thread, and the tally lists are append-only.
C26_TallyWriters ==
    [][/\ AppendOnly
       /\ \A m \in Models :
              /\ (Appends("skipped", m) \/ Appends("expired", m)) => OrchestratorStep
              /\ (Appends("successful", m) \/ Appends("failed", m)) =>
                     WatcherThreadStep(m)
      ]_vars

\* C26 (by mode): the tally lists are append-only; skipped and expired entries
\* are appended only by the orchestrator thread and failed entries only by the
\* watcher thread of the run; successful entries are appended by the watcher
\* thread of the run in eplus mode and by the orchestrator thread, in the step
\* in which the process call of that run returns, in sbem mode, where watcher
\* threads append nothing; so for one run the two threads never append to the
\* same kind.
C26_TallyWritersByMode ==
    [][/\ AppendOnly
       /\ \A m \in Models :
              /\ (Appends("skipped", m) \/ Appends("expired", m)) =>
                     (OrchestratorStep /\ i = m)
              /\ Appends("failed", m) =>
                     (WatcherThreadStep(m) /\ analysis_type = "eplus")
              /\ Appends("successful", m) =>
                     IF analysis_type = "eplus"
                     THEN WatcherThreadStep(m)
                     ELSE OrchestratorStep /\ i = m /\ opc = "call"
              /\ (WatcherThreadStep(m) /\ analysis_type = "sbem") =>
                     report_dct' = report_dct
      ]_vars

C26_Witness ==
    /\ analysis_type = "sbem"
    /\ \E m \in Models :
           /\ Count(report_dct.successful, m) = 1
           /\ wpc[m] = "poll"
           /\ hist[m].enq = 0

\* C27: when run_batch has raised a configuration error, the item loop was
\* never entered: no watch path was purged, no watcher thread was started, no
\* external process was invoked and no tally entry was recorded.
C27_ConfigErrorsBeforeLoop ==
    su.pc = "raised" =>
        /\ i = 1
        /\ opc = "loop"
        /\ \A p \in DOMAIN disk : disk[p] = 0
        /\ \A w \in Models : wpc[w] = "none"
        /\ \A r \in Models : tst[r] = "off"
        /\ \A kind \in TallyKinds : report_dct[kind] = <<>>
        /\ queue = <<>>

C27_Witness ==
    /\ su.pc = "raised"
    /\ su.err = "IncorrectAnalysisType"
    /\ cpc = "run"
    /\ i = 1
    /\ opc = "loop"

\* C28: in eplus mode run_batch goes past its watch-files test, and so enters
\* the item loop and starts Log-Scanning watchers, only with watch files that
\* contain both in.idf and eplusout.err; it raises IncorrectFilesRequest
\* whenever either of the two is missing.
C28_FilesRequestChecked ==
    /\ (analysis_type = "eplus" /\ su.pc \in {"index", "collector", "report", "loc",
                                              "cmnd", "loop"}) =>
           {"in.idf", "eplusout.err"} \subseteq su.watch_files
    /\ su.err = "IncorrectFilesRequest" =>
           (analysis_type = "eplus"
               /\ ~({"in.idf", "eplusout.err"} \subseteq su.watch_files))

\* watcher w stands at the statement that puts its event on the queue
AtEnqueue(w) ==
    \/ analysis_type = "sbem" /\ wpc[w] = "poll" /\ ~running[w]
    \/ analysis_type = "eplus" /\ wpc[w] = "read" /\ ~running[w]
    \/ /\ analysis_type = "eplus"
       /\ wpc[w] = "tail"
       /\ \/ ~running[w]
          \/ first_terminal(new_lines(errlines[WatchDir(w)], pos[w])) # "none"

\* the collector has taken nothing from the queue so far
CollectorIdle == cpc = "run" /\ \A m \in Models : hist[m].proc = 0

\* C29: a watcher that stands at its enqueue statement can always take that
\* step, whatever is waiting in the queue and whether or not the collector has
\* taken anything, and so can the orchestrator once its wait for the watcher
\* threads is over: no push waits for the collector; the collector's pop is
\* the step that waits, for as long as the queue is empty.
C29_PushNeverBlocks ==
    /\ \A w \in Models :
           AtEnqueue(w) =>
               IF analysis_type = "sbem" THEN ENABLED WatcherPut(w)
               ELSE IF wpc[w] = "read" THEN ENABLED ReadCheck(w)
               ELSE ENABLED ReadTail(w)
    /\ (opc = "loop" /\ i > NumModels /\ NoChildThreads) => ENABLED OrchFinish
    /\ (cpc = "run" /\ queue = <<>>) => ~ENABLED CollectorRun

C29_Witness ==
    /\ CollectorIdle
    /\ Len(queue) = 1
    /\ analysis_type = "sbem"
    /\ \E w \in Models : AtEnqueue(w)

\* the lines of the summary file of one kind about model m
RunLines(kind, m) ==
    {k \in 1..Len(report_file.lines) :
        report_file.lines[k] = [kind |-> kind, model |-> m]}

\* C30: with a report requested, the file starts with the header, holds
\* exactly one timeout line per run whose call timed out and exactly one
\* failure line per run in the failed tally, and the summary, once written, is
\* its last line and carries the sizes of the tallies; after the summary was
\* written neither the file nor the tallies change.
C30_ReportOrder ==
    /\ [](report_file.requested =>
            LET L == report_file.lines
            IN  /\ Len(L) >= 1
                /\ \A k \in 1..Len(L) : L[k].kind = "header" <=> k = 1
                /\ \A m \in Models :
                       /\ Cardinality(RunLines("timeout", m)) =
                              (IF hist[m].timedout THEN 1 ELSE 0)
                       /\ Cardinality(RunLines("timeout", m)) =
                              Count(report_dct.expired, m)
                       /\ Cardinality(RunLines("failed", m)) =
                              Count(report_dct.failed, m)
                       /\ Count(report_dct.failed, m) <= 1
                /\ \A k \in 1..Len(L) :
                       L[k].kind = "summary" =>
                           /\ k = Len(L)
                           /\ opc = "done"
                           /\ L[k].skipped = Len(report_dct.skipped)
                           /\ L[k].expired = Len(report_dct.expired)
                           /\ L[k].failed = Len(report_dct.failed)
                           /\ L[k].successful = Len(report_dct.successful)
                /\ opc = "done" => L[Len(L)].kind = "summary")
    /\ [][opc = "done" => (report_file' = report_file /\ report_dct' = report_dct)]_vars

C30_Witness ==
    /\ opc = "done"
    /\ \E m \in Models : RunLines("timeout", m) # {}
    /\ \E m \in Models : RunLines("failed", m) # {}
    /\ report_file.lines[Len(report_file.lines)].kind = "summary"
    /\ report_file.lines[Len(report_file.lines)].failed = 1

\* C31: kill_process does nothing when no DesignBuilder.exe runs; otherwise
\* it asks for termination first and kills by force only a process that is
\* still alive after the grace period; once it has returned no instance that
\* was running is left, however many there were.
C31_CleanStart ==
    /\ [](kp.pc = "done" => Live(kp.procs) = {})
    /\ [][/\ (kp.pc = "get" /\ Live(kp.procs) = {}) => kp' = [kp EXCEPT !.pc = "done"]
          /\ kp'.pc = "kill" => (kp.pc = "wait" /\ kp.procs[kp.db] = "hang")
          /\ (kp.pc = "get" /\ Live(kp.procs) # {}) => kp'.pc = "terminate"
        ]_vars

\* C32: once stop() has been called on a watcher, its _running flag is False
\* from then on: no later step sets it, and every later loop check finds it
\* False.
C32_StopIsSticky ==
    [][\A w \in Models : hist[w].stopped => (~running'[w] /\ hist'[w].stopped)]_vars

\* C33: whatever the flags, two different files, of one completion event or
\* of two work items, are copied to different destinations: both copies are
\* in the results tree afterwards and none has replaced the other.
C33_NoOverwrite ==
    ow.pc = "done" =>
        /\ ~ow.overwritten
        /\ OwDest(ow.a, ow) # OwDest(ow.b, ow)
        /\ \A f \in {ow.a, ow.b} : \E e \in ow.tree : e.file = f

\* C34: once the collector thread has been started, the shutdown signal is
\* eventually put on the queue, also when run_batch ends by raising.
C34_CollectorSignalled == (cpc = "run") ~> (Sentinels >= 1)

\* C35: the snapshot a Log-Scanning watcher takes of the jobs directory never
\* holds the job subdirectory of its own run, so that subdirectory, once
\* created, is in the difference between the current listing and the snapshot.
C35_SnapshotBeforeJob ==
    \A w \in Models :
        (analysis_type = "eplus" /\ wpc[w] \notin {"none", "started"}) =>
            /\ JobDir(w) \notin original_jobs[w]
            /\ JobDir(w) \in dirs => JobDir(w) \in dirs \ original_jobs[w]

====
